---- MODULE Spec2Model ----
(***************************************************************************)
(* Price calculator (src/app/(tabs)/index.tsx): the form state, the input  *)
(* validator validateInputs, the pricing pipeline calculateFinalPrice, the *)
(* history kept by addToHistory, and the handlers that change them.        *)
(*                                                                         *)
(* Numbers.  Every form field is a text; the code reads it three ways: as  *)
(* a truth value (the empty text is falsy), through isNaN (which converts  *)
(* with Number) and through parseFloat.  A JavaScript number is modelled   *)
(* as a record [k, v]: k = "num" with v the exact decimal value in         *)
(* thousandths (Scale = 1000), k = "nan" for NaN, k = "null" for null.     *)
(* Arithmetic is exact decimal arithmetic; binary rounding error, which    *)
(* the Number.EPSILON term of roundToTwoDecimals is there to absorb, is    *)
(* not modelled, and texts long enough to parse to Infinity are not drawn. *)
(***************************************************************************)
EXTENDS Integers, Sequences, FiniteSets, TLC

VARIABLES
    form,                \* useState form                      (line 89)
    errors,              \* useState errors                    (line 112)
    currency,            \* useState currency                  (line 113)
    history,             \* useState history                   (line 115)
    calculationResults,  \* useState calculationResults        (line 118)
    closureCurrency,     \* currency seen by the memoised calculateFinalPrice
    clock                \* Date.now(), counted in successful calculations

vars == <<form, errors, currency, history, calculationResults,
          closureCurrency, clock>>

---------------------------------------------------------------------------
(* Bounds of the model. *)

\* buyX and getY are drawn from the texts "1" .. MaxItems.
MaxItems == 2

\* Calculate presses that pass validation, per behaviour of Spec.
MaxPresses == 1

---------------------------------------------------------------------------
(* JavaScript numbers. *)

\* Thousandths per unit: 0.006 is 6, 10 is 10000.  The hundredths that
\* roundToTwoDecimals rounds to, and one more decimal digit below them.
Scale == 100 * 10

Num(n) == [k |-> "num", v |-> n]
NaN == [k |-> "nan", v |-> 0]
Null == [k |-> "null", v |-> 0]
Zero == Num(0)

IsNum(a) == a.k = "num"

\* Comparisons: every comparison with NaN is false.
Gt(a, b) == IsNum(a) /\ IsNum(b) /\ a.v > b.v
Ge(a, b) == IsNum(a) /\ IsNum(b) /\ a.v >= b.v
Lt(a, b) == IsNum(a) /\ IsNum(b) /\ a.v < b.v
Le(a, b) == IsNum(a) /\ IsNum(b) /\ a.v <= b.v

Add(a, b) == IF IsNum(a) /\ IsNum(b) THEN Num(a.v + b.v) ELSE NaN
Sub(a, b) == IF IsNum(a) /\ IsNum(b) THEN Num(a.v - b.v) ELSE NaN

\* Math.min, Math.max: NaN when either argument is NaN.
MathMin(a, b) ==
    IF IsNum(a) /\ IsNum(b) THEN (IF a.v <= b.v THEN a ELSE b) ELSE NaN
MathMax(a, b) ==
    IF IsNum(a) /\ IsNum(b) THEN (IF a.v >= b.v THEN a ELSE b) ELSE NaN

\* a * b, cut down to whole thousandths.  Every product of the code is the
\* argument of roundToTwoDecimals (directly or under Math.min), whose
\* rounding boundaries are whole thousandths, so the cut changes no result.
Times(a, b) ==
    IF IsNum(a) /\ IsNum(b) THEN Num((a.v * b.v) \div Scale) ELSE NaN

\* x * (rate / 100), cut down to whole thousandths in the same way.
PercentOf(x, rate) ==
    IF IsNum(x) /\ IsNum(rate)
    THEN Num((x.v * rate.v) \div (Scale * 100)) ELSE NaN

\* Math.ceil(a / b) and Math.floor(a / b) for b > 0: whole numbers.
CeilDiv(a, b) ==
    IF IsNum(a) /\ IsNum(b) /\ b.v > 0
    THEN Num((0 - ((0 - a.v) \div b.v)) * Scale) ELSE NaN
FloorDiv(a, b) ==
    IF IsNum(a) /\ IsNum(b) /\ b.v > 0
    THEN Num((a.v \div b.v) * Scale) ELSE NaN

\* roundToTwoDecimals: Math.round((value + EPSILON) * 100) / 100.  Math.round
\* rounds half up (towards +infinity); \div is the floor division.
roundToTwoDecimals(value) ==
    IF IsNum(value) THEN Num(((value.v + 5) \div 10) * 10) ELSE NaN

---------------------------------------------------------------------------
(* Texts of the form fields. *)

\* The decimal literals that are drawn, with their values in thousandths.
DecimalValue ==
    ("0" :> 0) @@ ("-5" :> (0 - 5000)) @@ ("-1" :> (0 - 1000)) @@
    ("0.006" :> 6) @@ ("1" :> 1000) @@ ("2" :> 2000) @@ ("3" :> 3000) @@
    ("4" :> 4000) @@ ("2.5" :> 2500) @@ ("9" :> 9000) @@ ("10" :> 10000) @@
    ("20" :> 20000) @@ ("50" :> 50000) @@ ("99" :> 99000) @@
    ("100" :> 100000)

IsLiteral(s) == s \in DOMAIN DecimalValue

\* Number(s): a decimal literal converts to its value, the empty text and a
\* text of white space only convert to 0, any other text to NaN.
ToNumber(s) ==
    IF IsLiteral(s) THEN Num(DecimalValue[s])
    ELSE IF s \in {"", " "} THEN Zero ELSE NaN

\* isNaN(s) of a text converts it with Number first.
isNaN(s) == ~IsNum(ToNumber(s))

\* parseFloat(s): the value of the decimal literal the text starts with
\* (after white space), NaN when it starts with none.
parseFloat(s) == IF IsLiteral(s) THEN Num(DecimalValue[s]) ELSE NaN

\* A text is truthy unless it is empty.
Truthy(s) == s # ""

\* The texts "1" .. "n" of whole item counts.
CountTexts == <<"1", "2", "3", "4">>
ItemTexts == {CountTexts[i] : i \in 1..MaxItems}

---------------------------------------------------------------------------
(* State after construction. *)

EmptyForm ==
    [originalPrice |-> "", discountRate |-> "", shippingFee |-> "",
     useCoupon |-> FALSE, couponValue |-> "", buyX |-> "", getY |-> "",
     itemPrice |-> "", quantity |-> "1", spendAmount |-> "",
     saveAmount |-> "", taxRate |-> ""]

NoErrors == [f \in {} |-> ""]

ZeroBreakdown ==
    [basePrice |-> Zero, discountAmount |-> Zero, couponAmount |-> Zero,
     promotionAmount |-> Zero, spendSaveAmount |-> Zero,
     shippingFee |-> Zero, taxAmount |-> Zero]

InitialResults ==
    [finalPrice |-> Null, totalSavings |-> Null, breakdown |-> ZeroBreakdown]

CURRENCIES == {"USD", "EUR", "GBP", "JPY", "CNY", "CAD", "AUD"}

---------------------------------------------------------------------------
(* validateInputs (lines 163-215): every rule is an if of its own that adds *)
(* to newErrors; the rules are applied one after the other.                *)

Put(newErrors, field, message) ==
    [f \in (DOMAIN newErrors) \cup {field} |->
        IF f = field THEN message ELSE newErrors[f]]

MsgPrice == "Please enter a valid positive price"
MsgDiscount == "Discount must be between 0-99%"
MsgShipping == "Shipping fee cannot be negative"
MsgTax == "Tax rate cannot be negative"
MsgCoupon == "Please enter a valid coupon value"
MsgBuyGet == "Both \"Buy X\" and \"Get Y\" must be positive numbers"
MsgItemPrice == "Please enter a valid item price"
MsgSpendSave == "Both \"Spend\" and \"Save\" amounts must be positive numbers"

\* line 172
OriginalPriceInvalid(f) ==
    \/ ~Truthy(f.originalPrice)
    \/ isNaN(f.originalPrice)
    \/ Le(parseFloat(f.originalPrice), Zero)

\* line 177
DiscountRateInvalid(f) ==
    /\ Truthy(f.discountRate)
    /\ \/ isNaN(f.discountRate)
       \/ Lt(parseFloat(f.discountRate), Zero)
       \/ Ge(parseFloat(f.discountRate), Num(100 * Scale))

\* line 181
ShippingFeeInvalid(f) ==
    /\ Truthy(f.shippingFee)
    /\ (isNaN(f.shippingFee) \/ Lt(parseFloat(f.shippingFee), Zero))

\* line 185
TaxRateInvalid(f) ==
    /\ Truthy(f.taxRate)
    /\ (isNaN(f.taxRate) \/ Lt(parseFloat(f.taxRate), Zero))

\* line 190
CouponValueInvalid(f) ==
    /\ f.useCoupon
    /\ \/ ~Truthy(f.couponValue)
       \/ isNaN(f.couponValue)
       \/ Le(parseFloat(f.couponValue), Zero)

\* Mutant: the group rule triggered by buyX alone.
BuyGetInvalidBuyOnly(f) ==
    /\ Truthy(f.buyX)
    /\ \/ ~Truthy(f.getY)
       \/ isNaN(f.buyX) \/ isNaN(f.getY)
       \/ Le(parseFloat(f.buyX), Zero) \/ Le(parseFloat(f.getY), Zero)

\* lines 195-196
BuyGetInvalid(f) ==
    /\ (Truthy(f.buyX) \/ Truthy(f.getY))
    /\ \/ ~Truthy(f.buyX) \/ ~Truthy(f.getY)
       \/ isNaN(f.buyX) \/ isNaN(f.getY)
       \/ Le(parseFloat(f.buyX), Zero) \/ Le(parseFloat(f.getY), Zero)

\* line 201
ItemPriceInvalid(f) ==
    /\ (Truthy(f.buyX) \/ Truthy(f.getY))
    /\ \/ ~Truthy(f.itemPrice)
       \/ isNaN(f.itemPrice)
       \/ Le(parseFloat(f.itemPrice), Zero)

\* lines 206-208
SpendSaveInvalid(f) ==
    /\ (Truthy(f.spendAmount) \/ Truthy(f.saveAmount))
    /\ \/ ~Truthy(f.spendAmount) \/ ~Truthy(f.saveAmount)
       \/ isNaN(f.spendAmount) \/ isNaN(f.saveAmount)
       \/ Le(parseFloat(f.spendAmount), Zero)
       \/ Le(parseFloat(f.saveAmount), Zero)

checkOriginalPrice(f, e) ==
    IF OriginalPriceInvalid(f) THEN Put(e, "originalPrice", MsgPrice) ELSE e
checkDiscountRate(f, e) ==
    IF DiscountRateInvalid(f) THEN Put(e, "discountRate", MsgDiscount) ELSE e
checkShippingFee(f, e) ==
    IF ShippingFeeInvalid(f) THEN Put(e, "shippingFee", MsgShipping) ELSE e
checkTaxRate(f, e) ==
    IF TaxRateInvalid(f) THEN Put(e, "taxRate", MsgTax) ELSE e
checkCoupon(f, e) ==
    IF CouponValueInvalid(f) THEN Put(e, "couponValue", MsgCoupon) ELSE e
\* Mutant: the error set on buyX only.
checkBuyGetOneField(f, e) ==
    IF BuyGetInvalid(f) THEN Put(e, "buyX", MsgBuyGet) ELSE e
checkBuyGet(f, e) ==
    IF BuyGetInvalid(f)
    THEN Put(Put(e, "buyX", MsgBuyGet), "getY", MsgBuyGet) ELSE e
checkItemPrice(f, e) ==
    IF ItemPriceInvalid(f) THEN Put(e, "itemPrice", MsgItemPrice) ELSE e
checkSpendSave(f, e) ==
    IF SpendSaveInvalid(f)
    THEN Put(Put(e, "spendAmount", MsgSpendSave), "saveAmount", MsgSpendSave)
    ELSE e

\* The error map validateInputs stores with setErrors(newErrors).
newErrorsOf(f) ==
    checkSpendSave(f,
      checkItemPrice(f,
        checkBuyGet(f,
          checkCoupon(f,
            checkTaxRate(f,
              checkShippingFee(f,
                checkDiscountRate(f,
                  checkOriginalPrice(f, NoErrors))))))))

\* The value validateInputs returns: Object.keys(newErrors).length === 0.
validateInputs(f) == DOMAIN newErrorsOf(f) = {}

---------------------------------------------------------------------------
(* calculateFinalPrice (lines 218-314): the stages over runningTotal and   *)
(* breakdown, in the order of the code.  A stage state c is the record of  *)
(* the locals basePrice, runningTotal and breakdown.                       *)

\* lines 226-239: parse the inputs, start the running total and breakdown.
shippingOf(f) ==
    IF Truthy(f.shippingFee) THEN parseFloat(f.shippingFee) ELSE Zero
taxRateOf(f) ==
    IF Truthy(f.taxRate) THEN parseFloat(f.taxRate) ELSE Zero

startCalculation(f) ==
    [basePrice |-> parseFloat(f.originalPrice),
     runningTotal |-> parseFloat(f.originalPrice),
     breakdown |->
        [basePrice |-> parseFloat(f.originalPrice),
         discountAmount |-> Zero, couponAmount |-> Zero,
         promotionAmount |-> Zero, spendSaveAmount |-> Zero,
         shippingFee |-> shippingOf(f), taxAmount |-> Zero]]

\* lines 241-246: 1. percentage discount.
applyDiscount(f, c) ==
    IF Truthy(f.discountRate) /\ Gt(parseFloat(f.discountRate), Zero)
    THEN LET discountAmount ==
                 roundToTwoDecimals(
                     PercentOf(c.runningTotal, parseFloat(f.discountRate)))
         IN  [c EXCEPT !.runningTotal = Sub(c.runningTotal, discountAmount),
                       !.breakdown.discountAmount = discountAmount]
    ELSE c

\* Mutant: the quantity taken from the discounted running total.
quantityOfRunningTotal(f, c) ==
    CeilDiv(c.runningTotal, parseFloat(f.itemPrice))

\* line 253: quantity = Math.ceil(basePrice / singleItemPrice).
quantityOf(f, c) == CeilDiv(c.basePrice, parseFloat(f.itemPrice))

\* line 256: freeItemsCount = Math.floor(quantity / buyX) * getY.
freeItemsCountOf(f, c) ==
    Times(FloorDiv(quantityOf(f, c), parseFloat(f.buyX)), parseFloat(f.getY))

\* lines 249-250: the promotion is engaged.
promotionEngaged(f) ==
    /\ Truthy(f.buyX) /\ Truthy(f.getY) /\ Truthy(f.itemPrice)
    /\ Gt(parseFloat(f.buyX), Zero)
    /\ Gt(parseFloat(f.getY), Zero)
    /\ Gt(parseFloat(f.itemPrice), Zero)

\* lines 248-261: 2. buy X get Y.
applyPromotion(f, c) ==
    IF promotionEngaged(f) /\ Gt(quantityOf(f, c), Zero)
    THEN LET freeItemsValue ==
                 roundToTwoDecimals(
                     MathMin(c.runningTotal,
                             Times(freeItemsCountOf(f, c),
                                   parseFloat(f.itemPrice))))
         IN  [c EXCEPT !.runningTotal = Sub(c.runningTotal, freeItemsValue),
                       !.breakdown.promotionAmount = freeItemsValue]
    ELSE c

\* lines 263-268: 3. fixed coupon.
applyCoupon(f, c) ==
    IF f.useCoupon /\ Truthy(f.couponValue)
       /\ Gt(parseFloat(f.couponValue), Zero)
    THEN LET couponAmount ==
                 MathMin(c.runningTotal, parseFloat(f.couponValue))
         IN  [c EXCEPT !.runningTotal = Sub(c.runningTotal, couponAmount),
                       !.breakdown.couponAmount = couponAmount]
    ELSE c

\* Mutant: the threshold compared with the discounted running total.
spendSaveAppliesRunningTotal(f, c) ==
    /\ Truthy(f.spendAmount) /\ Truthy(f.saveAmount)
    /\ Gt(parseFloat(f.spendAmount), Zero)
    /\ Gt(parseFloat(f.saveAmount), Zero)
    /\ Ge(c.runningTotal, parseFloat(f.spendAmount))

\* lines 271-273: the spend-and-save condition.
spendSaveApplies(f, c) ==
    /\ Truthy(f.spendAmount) /\ Truthy(f.saveAmount)
    /\ Gt(parseFloat(f.spendAmount), Zero)
    /\ Gt(parseFloat(f.saveAmount), Zero)
    /\ Ge(c.basePrice, parseFloat(f.spendAmount))

\* lines 270-278: 4. spend and save.
applySpendSave(f, c) ==
    IF spendSaveApplies(f, c)
    THEN LET saveAmount ==
                 MathMin(c.runningTotal, parseFloat(f.saveAmount))
         IN  [c EXCEPT !.runningTotal = Sub(c.runningTotal, saveAmount),
                       !.breakdown.spendSaveAmount = saveAmount]
    ELSE c

\* lines 280-281: 5. shipping.
addShipping(f, c) ==
    [c EXCEPT !.runningTotal = Add(c.runningTotal, shippingOf(f))]

\* lines 283-288: 6. tax.
applyTax(f, c) ==
    IF Gt(taxRateOf(f), Zero)
    THEN LET taxAmount ==
                 roundToTwoDecimals(PercentOf(c.runningTotal, taxRateOf(f)))
         IN  [c EXCEPT !.runningTotal = Add(c.runningTotal, taxAmount),
                       !.breakdown.taxAmount = taxAmount]
    ELSE c

\* lines 290-291: 7. no negative prices.
clampTotal(c) == [c EXCEPT !.runningTotal = MathMax(Zero, c.runningTotal)]

\* The stage states in the order the code runs the stages.
afterDiscount(f) == applyDiscount(f, startCalculation(f))
afterPromotion(f) == applyPromotion(f, afterDiscount(f))
\* Mutant: the coupon taken before the promotion.
afterCouponFirst(f) == applyPromotion(f, applyCoupon(f, afterDiscount(f)))
afterCoupon(f) == applyCoupon(f, afterPromotion(f))
afterSpendSave(f) == applySpendSave(f, afterCoupon(f))
afterShipping(f) == addShipping(f, afterSpendSave(f))
\* Mutant: the tax taken before the shipping fee is added.
afterTaxBeforeShipping(f) == addShipping(f, applyTax(f, afterSpendSave(f)))
afterTax(f) == applyTax(f, afterShipping(f))
runStages(f) == clampTotal(afterTax(f))

\* Mutant: the tax counted among the savings.
totalSavingsOfWithTax(breakdown) ==
    roundToTwoDecimals(
        Add(Add(Add(Add(breakdown.discountAmount, breakdown.couponAmount),
                    breakdown.promotionAmount),
                breakdown.spendSaveAmount),
            breakdown.taxAmount))

\* lines 293-299
totalSavingsOf(breakdown) ==
    roundToTwoDecimals(
        Add(Add(Add(breakdown.discountAmount, breakdown.couponAmount),
                breakdown.promotionAmount),
            breakdown.spendSaveAmount))

\* lines 302-308: the value given to setCalculationResults.
resultsOf(f) ==
    LET c == runStages(f)
    IN  [finalPrice |-> roundToTwoDecimals(c.runningTotal),
         totalSavings |-> totalSavingsOf(c.breakdown),
         breakdown |-> c.breakdown]

\* lines 317-328: addToHistory, called by the memoised calculateFinalPrice,
\* whose closure holds the addToHistory (and so the currency) of the render
\* in which form last changed.
historyItem(f, r, cur, now) ==
    [id |-> now, currency |-> cur, finalPrice |-> r.finalPrice,
     totalSavings |-> r.totalSavings, originalPrice |-> f.originalPrice,
     breakdown |-> r.breakdown]

\* line 328: [historyItem, ...prev].slice(0, 10)
HistoryLimit == 10

\* Mutant: the new item put in front without the slice.
addToHistoryUnsliced(prev, item) == <<item>> \o prev

addToHistory(prev, item) ==
    LET all == <<item>> \o prev
    IN  SubSeq(all, 1, IF Len(all) < HistoryLimit THEN Len(all)
                                                 ELSE HistoryLimit)

---------------------------------------------------------------------------
(* The handlers. *)

\* Calculate pressed (line 560): calculateFinalPrice.  validateInputs stores
\* its error map in every case; the calculation runs only on an empty map.
calculateFinalPrice(limit) ==
    /\ errors' = newErrorsOf(form)
    /\ IF validateInputs(form)
       THEN /\ clock < limit
            /\ clock' = clock + 1
            /\ calculationResults' = resultsOf(form)
            /\ history' = addToHistory(history,
                   historyItem(form, resultsOf(form), closureCurrency,
                               clock + 1))
       ELSE UNCHANGED <<calculationResults, history, clock>>
    /\ UNCHANGED <<form, currency, closureCurrency>>

\* A field edited (lines 133-147): handleInputChange(field, value).  setForm
\* stores a new form object, so the render that follows makes a new
\* calculateFinalPrice, whose addToHistory holds the currency of that render.
handleInputChange(field, value) ==
    /\ form' = [form EXCEPT ![field] = value]
    /\ errors' = IF field \in DOMAIN errors
                 THEN [f \in (DOMAIN errors) \ {field} |-> errors[f]]
                 ELSE errors
    /\ closureCurrency' = currency
    /\ UNCHANGED <<currency, history, calculationResults, clock>>

\* Reset pressed (lines 332-353): resetForm.  The results and the history
\* are kept; the new form object renews calculateFinalPrice as an edit does.
resetForm ==
    /\ form' = EmptyForm
    /\ errors' = NoErrors
    /\ closureCurrency' = currency
    /\ UNCHANGED <<currency, history, calculationResults, clock>>

\* A currency button pressed (line 400): setCurrency(curr).  form is the same
\* object in the render that follows, so useCallback keeps the
\* calculateFinalPrice of an earlier render (deps [form, validateInputs]),
\* and with it the addToHistory and currency of that render.
setCurrency(curr) ==
    /\ currency' = curr
    /\ UNCHANGED <<form, errors, history, calculationResults,
                   closureCurrency, clock>>

\* lines 356-359: formatCurrency, the symbol and the amount.
CurrencySymbol ==
    ("USD" :> "$") @@ ("EUR" :> "EUR-sign") @@ ("GBP" :> "GBP-sign") @@
    ("JPY" :> "yen-sign") @@ ("CNY" :> "yen-sign") @@ ("CAD" :> "CA$") @@
    ("AUD" :> "A$")
formatCurrency(cur, amount) ==
    [symbol |-> CurrencySymbol[cur], amount |-> amount]

\* line 363: !calculationResults.finalPrice is true of null, 0 and NaN.
Falsy(a) == a.k = "null" \/ a.k = "nan" \/ (a.k = "num" /\ a.v = 0)

\* lines 362-375: breakdownDisplay, null or the list of the rows; the rows
\* of zero amounts are filtered out.
breakdownRow(cur, label, sign, amount) ==
    IF Gt(amount, Zero)
    THEN <<[label |-> label, sign |-> sign,
            value |-> formatCurrency(cur, amount)]>>
    ELSE <<>>
breakdownDisplay(results, cur) ==
    IF Falsy(results.finalPrice)
    THEN [isNull |-> TRUE, rows |-> <<>>]
    ELSE [isNull |-> FALSE,
          rows |->
            <<[label |-> "Original Price", sign |-> "",
               value |-> formatCurrency(cur, results.breakdown.basePrice)]>>
            \o breakdownRow(cur, "Discount", "-",
                            results.breakdown.discountAmount)
            \o breakdownRow(cur, "Coupon", "-",
                            results.breakdown.couponAmount)
            \o breakdownRow(cur, "Buy X Get Y", "-",
                            results.breakdown.promotionAmount)
            \o breakdownRow(cur, "Spend & Save", "-",
                            results.breakdown.spendSaveAmount)
            \o breakdownRow(cur, "Shipping", "+",
                            results.breakdown.shippingFee)
            \o breakdownRow(cur, "Tax", "+",
                            results.breakdown.taxAmount)]

\* line 581: the result panel is rendered.
resultPanelShown(results) == results.finalPrice # Null

---------------------------------------------------------------------------
(* Spec: the validator and the pipeline on every form drawn from the texts *)
(* below; any such form is reached from the empty form by edits.           *)

PriceTexts == {"", " ", "abc", "0", "-5", "0.006", "10"}
DiscountTexts == {"", "20", "99", "100"}
ShippingTexts == {"", " ", "2.5", "-1"}
CouponTexts == {"", " ", "1", "50"}
BuyTexts == {""} \cup ItemTexts
GetTexts == {""} \cup ItemTexts
ItemPriceTexts == {"", "2.5"}
SpendTexts == {"", "9", "20"}
SaveTexts == {"", "4"}
TaxTexts == {"", "10", "-1"}

Forms ==
    [originalPrice : PriceTexts, discountRate : DiscountTexts,
     shippingFee : ShippingTexts, useCoupon : BOOLEAN,
     couponValue : CouponTexts, buyX : BuyTexts, getY : GetTexts,
     itemPrice : ItemPriceTexts, quantity : {"1"},
     spendAmount : SpendTexts, saveAmount : SaveTexts, taxRate : TaxTexts]

Init ==
    /\ form \in Forms
    /\ errors = NoErrors
    /\ currency = "USD"
    /\ closureCurrency = "USD"
    /\ history = <<>>
    /\ calculationResults = InitialResults
    /\ clock = 0

Next == calculateFinalPrice(MaxPresses)

Spec == Init /\ [][Next]_vars

---------------------------------------------------------------------------
(* SpecUI: the screen from its first render, under edits of two fields,    *)
(* currency selections, resets and Calculate presses.                      *)

\* Calculate presses that pass validation, per behaviour of SpecUI.
MaxUIPresses == 11

UIPriceTexts == {"", "10"}
UIShippingTexts == {"", "-1"}
UICurrencies == {"USD", "EUR"}

InitUI ==
    /\ form = EmptyForm
    /\ errors = NoErrors
    /\ currency = "USD"
    /\ closureCurrency = "USD"
    /\ history = <<>>
    /\ calculationResults = InitialResults
    /\ clock = 0

NextUI ==
    \/ \E value \in UIPriceTexts : handleInputChange("originalPrice", value)
    \/ \E value \in UIShippingTexts : handleInputChange("shippingFee", value)
    \/ \E curr \in UICurrencies : setCurrency(curr)
    \/ resetForm
    \/ calculateFinalPrice(MaxUIPresses)

SpecUI == InitUI /\ [][NextUI]_vars

---------------------------------------------------------------------------
(* Vocabulary of the claims. *)

\* Calculate has been pressed on the form of this state.
Pressed == errors # NoErrors \/ clock > 0

\* The press passed validation and stored a result.
Accepted == clock > 0

Present(s) == s # ""

\* The text parses as a number, as the rules of the validator ask.
Numeric(s) == IsNum(parseFloat(s))
Positive(s) == Numeric(s) /\ parseFloat(s).v > 0
NonNegative(s) == Numeric(s) /\ parseFloat(s).v >= 0

bd == calculationResults.breakdown

\* The running total before a stage, from the stored breakdown.
BeforeSpendSave ==
    Sub(Sub(Sub(bd.basePrice, bd.discountAmount), bd.promotionAmount),
        bd.couponAmount)
BeforeShipping == Sub(BeforeSpendSave, bd.spendSaveAmount)

---------------------------------------------------------------------------
(* C1 *)

\* C1 (as claimed): after every press that passes validateInputs, the stored
\* finalPrice is a number >= 0.
C1_FinalPriceNonNegative ==
    Accepted => Ge(calculationResults.finalPrice, Zero)

---------------------------------------------------------------------------
(* C2 *)

\* The pipeline of the specification, section 4.2, stage by stage over a
\* running total r0 .. r7.  quantityGuard adds the code's test quantity > 0
\* to stage 2; finalRounding makes finalPrice the rounded clamped total.
ReferencePipeline(f, quantityGuard, finalRounding) ==
    LET base == parseFloat(f.originalPrice)
        rate == parseFloat(f.discountRate)
        buyX == parseFloat(f.buyX)
        getY == parseFloat(f.getY)
        item == parseFloat(f.itemPrice)
        coupon == parseFloat(f.couponValue)
        spend == parseFloat(f.spendAmount)
        save == parseFloat(f.saveAmount)
        ship == IF Present(f.shippingFee) THEN parseFloat(f.shippingFee)
                                          ELSE Zero
        tax == parseFloat(f.taxRate)
        d == IF Gt(rate, Zero)
             THEN roundToTwoDecimals(PercentOf(base, rate)) ELSE Zero
        r1 == Sub(base, d)
        quantity == CeilDiv(base, item)
        free == Times(FloorDiv(quantity, buyX), getY)
        p == IF /\ Gt(buyX, Zero) /\ Gt(getY, Zero) /\ Gt(item, Zero)
                /\ (quantityGuard => Gt(quantity, Zero))
             THEN roundToTwoDecimals(MathMin(r1, Times(free, item)))
             ELSE Zero
        r2 == Sub(r1, p)
        c == IF f.useCoupon /\ Gt(coupon, Zero)
             THEN MathMin(r2, coupon) ELSE Zero
        r3 == Sub(r2, c)
        s == IF Gt(spend, Zero) /\ Gt(save, Zero) /\ Ge(base, spend)
             THEN MathMin(r3, save) ELSE Zero
        r4 == Sub(r3, s)
        r5 == Add(r4, ship)
        t == IF Gt(tax, Zero)
             THEN roundToTwoDecimals(PercentOf(r5, tax)) ELSE Zero
        r6 == Add(r5, t)
        r7 == MathMax(Zero, r6)
    IN  [finalPrice |-> IF finalRounding THEN roundToTwoDecimals(r7) ELSE r7,
         breakdown |->
            [basePrice |-> base, discountAmount |-> d, couponAmount |-> c,
             promotionAmount |-> p, spendSaveAmount |-> s,
             shippingFee |-> ship, taxAmount |-> t]]

\* C2 (as claimed): the stored finalPrice and breakdown are those of the
\* section 4.2 pipeline run in the order discount, promotion, coupon, spend
\* and save, shipping, tax, floor.
C2_MatchesSection42 ==
    Accepted =>
        /\ calculationResults.finalPrice =
               ReferencePipeline(form, FALSE, FALSE).finalPrice
        /\ calculationResults.breakdown =
               ReferencePipeline(form, FALSE, FALSE).breakdown

\* C2 (amended): the stored breakdown is that of the section 4.2 pipeline in
\* that order with stage 2 skipped unless quantity > 0, and the stored
\* finalPrice is its clamped running total rounded to two decimals.
C2_MatchesOrderedPipeline ==
    Accepted =>
        /\ calculationResults.finalPrice =
               ReferencePipeline(form, TRUE, TRUE).finalPrice
        /\ calculationResults.breakdown =
               ReferencePipeline(form, TRUE, TRUE).breakdown

\* Every stage has contributed a positive amount to one calculation.
C2_Witness ==
    /\ Accepted
    /\ Gt(bd.discountAmount, Zero) /\ Gt(bd.promotionAmount, Zero)
    /\ Gt(bd.couponAmount, Zero) /\ Gt(bd.spendSaveAmount, Zero)
    /\ Gt(bd.shippingFee, Zero) /\ Gt(bd.taxAmount, Zero)

---------------------------------------------------------------------------
(* C3 *)

\* C3: with taxRate > 0, the stored taxAmount is round2 of taxRate percent of
\* (base price minus the four discount amounts, plus the shipping fee), and
\* the stored shipping fee is the fee entered, reduced by no stage.
C3_TaxOnShipping ==
    (Accepted /\ Gt(taxRateOf(form), Zero)) =>
        /\ bd.taxAmount =
               roundToTwoDecimals(
                   PercentOf(Add(BeforeShipping, bd.shippingFee),
                             parseFloat(form.taxRate)))
        /\ bd.shippingFee =
               (IF Present(form.shippingFee)
                THEN parseFloat(form.shippingFee) ELSE Zero)

\* A taxed calculation with a shipping fee, where the tax is more than the
\* tax on the discounted total alone.
C3_Witness ==
    /\ Accepted
    /\ Gt(parseFloat(form.taxRate), Zero)
    /\ Gt(bd.shippingFee, Zero)
    /\ Gt(bd.discountAmount, Zero)
    /\ Gt(bd.taxAmount,
          roundToTwoDecimals(
              PercentOf(BeforeShipping, parseFloat(form.taxRate))))

---------------------------------------------------------------------------
(* C4 *)

\* quantity and freeItemsCount as the claim gives them, from the texts.
C4_Quantity(f) ==
    CeilDiv(parseFloat(f.originalPrice), parseFloat(f.itemPrice))
C4_FreeItems(f) ==
    Times(FloorDiv(C4_Quantity(f), parseFloat(f.buyX)), parseFloat(f.getY))

\* C4: two valid forms that differ only in discountRate have the same
\* quantity and freeItemsCount in the promotion stage, both computed from the
\* original price; the stored promotionAmount is the free items' value
\* capped at the discounted running total.
C4_QuantityFromBasePrice ==
    /\ \A d \in DiscountTexts :
          LET g == [form EXCEPT !.discountRate = d]
          IN  (validateInputs(form) /\ validateInputs(g)
                 /\ promotionEngaged(form)) =>
                /\ quantityOf(g, afterDiscount(g))
                      = quantityOf(form, afterDiscount(form))
                /\ freeItemsCountOf(g, afterDiscount(g))
                      = freeItemsCountOf(form, afterDiscount(form))
                /\ quantityOf(form, afterDiscount(form)) = C4_Quantity(form)
    /\ (Accepted /\ promotionEngaged(form)
           /\ Gt(C4_Quantity(form), Zero)) =>
          bd.promotionAmount =
              roundToTwoDecimals(
                  MathMin(Sub(bd.basePrice, bd.discountAmount),
                          Times(C4_FreeItems(form),
                                parseFloat(form.itemPrice))))

\* A promotion applied after a discount that changes how many items the
\* running total would buy.
C4_Witness ==
    /\ Accepted
    /\ promotionEngaged(form)
    /\ Gt(bd.discountAmount, Zero)
    /\ Gt(bd.promotionAmount, Zero)
    /\ Lt(CeilDiv(Sub(bd.basePrice, bd.discountAmount),
                  parseFloat(form.itemPrice)),
          C4_Quantity(form))

---------------------------------------------------------------------------
(* C5 *)

\* The condition of the claim, on the texts and the original price.
C5_Condition(f) ==
    /\ Present(f.spendAmount) /\ Present(f.saveAmount)
    /\ Positive(f.spendAmount) /\ Positive(f.saveAmount)
    /\ Ge(parseFloat(f.originalPrice), parseFloat(f.spendAmount))

\* C5: the stored spendSaveAmount is min(running total, saveAmount) exactly
\* when both amounts are present and positive and the original price is at
\* least spendAmount, and 0 otherwise.
C5_SpendSaveOnBasePrice ==
    Accepted =>
        bd.spendSaveAmount =
            (IF C5_Condition(form)
             THEN MathMin(BeforeSpendSave, parseFloat(form.saveAmount))
             ELSE Zero)

\* The rebate given although the discounted running total is below the
\* threshold.
C5_Witness ==
    /\ Accepted
    /\ C5_Condition(form)
    /\ Lt(BeforeSpendSave, parseFloat(form.spendAmount))
    /\ Gt(bd.spendSaveAmount, Zero)

---------------------------------------------------------------------------
(* C6 *)

\* The price text is missing, does not parse as a number, or is <= 0.
C6_BadPrice(s) == ~Present(s) \/ ~Numeric(s) \/ parseFloat(s).v <= 0

\* C6 (as claimed): a press on a form whose originalPrice is missing,
\* non-numeric or <= 0 stores an error on originalPrice and leaves
\* calculationResults and history as they were.
C6_BadPriceRejected ==
    [][C6_BadPrice(form.originalPrice) =>
          /\ "originalPrice" \in DOMAIN errors'
          /\ calculationResults' = calculationResults
          /\ history' = history]_vars

---------------------------------------------------------------------------
(* C7 *)

\* Some but not all fields of a group are present.
C7_PartialPromotion(f) ==
    /\ Present(f.buyX) \/ Present(f.getY) \/ Present(f.itemPrice)
    /\ ~(Present(f.buyX) /\ Present(f.getY) /\ Present(f.itemPrice))
C7_PartialSpendSave(f) == Present(f.spendAmount) # Present(f.saveAmount)
C7_PartialCoupon(f) == f.useCoupon # Present(f.couponValue)

\* C7 (as claimed): a press on a form with a partially specified group
\* stores a non-empty error map and runs no calculation.
C7_PartialGroupRejected ==
    (Pressed /\ (C7_PartialPromotion(form) \/ C7_PartialSpendSave(form)
                   \/ C7_PartialCoupon(form))) =>
        (errors # NoErrors /\ ~Accepted)

\* The partial groups the validator rejects: the promotion group with buyX
\* or getY present, one of spendAmount and saveAmount alone, the coupon
\* switched on without a value.
C7_RejectedPartial(f) ==
    \/ C7_PartialPromotion(f) /\ (Present(f.buyX) \/ Present(f.getY))
    \/ C7_PartialSpendSave(f)
    \/ f.useCoupon /\ ~Present(f.couponValue)

\* C7 (amended): a press on a form with one of those partial groups stores a
\* non-empty error map and runs no calculation; an itemPrice with neither
\* buyX nor getY, and a couponValue with the coupon switched off, raise no
\* error of their own and their stage contributes nothing.
C7_EngagedPartialGroupRejected ==
    /\ (Pressed /\ C7_RejectedPartial(form)) =>
          (errors # NoErrors /\ ~Accepted /\ history = <<>>
             /\ calculationResults = InitialResults)
    /\ (Pressed /\ ~Present(form.buyX) /\ ~Present(form.getY)) =>
          /\ "itemPrice" \notin DOMAIN errors
          /\ Accepted => bd.promotionAmount = Zero
    /\ (Pressed /\ ~form.useCoupon) =>
          /\ "couponValue" \notin DOMAIN errors
          /\ Accepted => bd.couponAmount = Zero

\* A press rejected for a promotion group that has getY and itemPrice but no
\* buyX, every other field being valid.
C7_Witness ==
    /\ Pressed /\ ~Accepted
    /\ ~Present(form.buyX) /\ Present(form.getY) /\ Present(form.itemPrice)
    /\ DOMAIN errors = {"buyX", "getY"}

---------------------------------------------------------------------------
(* C8 *)

\* C8: a press on a form with exactly one of buyX and getY present stores
\* the same error on buyX and on getY and produces no result.
C8_BuyGetBothFlagged ==
    (Pressed /\ (Present(form.buyX) # Present(form.getY))) =>
        /\ {"buyX", "getY"} \subseteq DOMAIN errors
        /\ errors["buyX"] = MsgBuyGet
        /\ errors["getY"] = errors["buyX"]
        /\ ~Accepted
        /\ calculationResults = InitialResults
        /\ history = <<>>

\* A rejected press with buyX present and getY absent.
C8_Witness ==
    /\ Pressed
    /\ Present(form.buyX) /\ ~Present(form.getY)
    /\ "getY" \in DOMAIN errors
    /\ calculationResults.finalPrice = Null

---------------------------------------------------------------------------
(* C9 *)

\* The fields each rule of the specification, section 4.1, flags when it is
\* evaluated alone.
C9_Rule1(f) ==
    IF Present(f.originalPrice) /\ Positive(f.originalPrice)
    THEN {} ELSE {"originalPrice"}
C9_Rule2(f) ==
    IF Present(f.discountRate)
       /\ ~(NonNegative(f.discountRate)
             /\ parseFloat(f.discountRate).v < 100 * Scale)
    THEN {"discountRate"} ELSE {}
C9_Rule3(f) ==
    IF Present(f.shippingFee) /\ ~NonNegative(f.shippingFee)
    THEN {"shippingFee"} ELSE {}
C9_Rule4(f) ==
    IF Present(f.taxRate) /\ ~NonNegative(f.taxRate)
    THEN {"taxRate"} ELSE {}
C9_Rule5(f) ==
    IF f.useCoupon /\ ~(Present(f.couponValue) /\ Positive(f.couponValue))
    THEN {"couponValue"} ELSE {}
C9_Rule6(f) ==
    IF (Present(f.buyX) \/ Present(f.getY))
       /\ ~(Present(f.buyX) /\ Present(f.getY)
             /\ Positive(f.buyX) /\ Positive(f.getY))
    THEN {"buyX", "getY"} ELSE {}
C9_Rule7(f) ==
    IF (Present(f.buyX) \/ Present(f.getY))
       /\ ~(Present(f.itemPrice) /\ Positive(f.itemPrice))
    THEN {"itemPrice"} ELSE {}
C9_Rule8(f) ==
    IF (Present(f.spendAmount) \/ Present(f.saveAmount))
       /\ ~(Present(f.spendAmount) /\ Present(f.saveAmount)
             /\ Positive(f.spendAmount) /\ Positive(f.saveAmount))
    THEN {"spendAmount", "saveAmount"} ELSE {}

C9_Flagged(f) ==
    C9_Rule1(f) \cup C9_Rule2(f) \cup C9_Rule3(f) \cup C9_Rule4(f)
       \cup C9_Rule5(f) \cup C9_Rule6(f) \cup C9_Rule7(f) \cup C9_Rule8(f)

\* C9 (as claimed): after a press the fields that carry an error are the
\* union of the fields the eight rules flag, and validation passes exactly
\* when no rule is violated.
C9_AllRulesReported ==
    Pressed =>
        /\ DOMAIN errors = C9_Flagged(form)
        /\ Accepted <=> C9_Flagged(form) = {}

---------------------------------------------------------------------------
(* C10 *)

\* C10 (as claimed): after every press that passes validation, every field
\* of the stored breakdown and totalSavings are numbers >= 0.
C10_BreakdownNonNegative ==
    Accepted =>
        /\ Ge(bd.basePrice, Zero) /\ Ge(bd.discountAmount, Zero)
        /\ Ge(bd.couponAmount, Zero) /\ Ge(bd.promotionAmount, Zero)
        /\ Ge(bd.spendSaveAmount, Zero) /\ Ge(bd.shippingFee, Zero)
        /\ Ge(bd.taxAmount, Zero)
        /\ Ge(calculationResults.totalSavings, Zero)

---------------------------------------------------------------------------
(* C11 *)

\* C11 (as claimed): in every calculation that passes validation the running
\* total is >= 0 after each of the stages discount, promotion, coupon, spend
\* and save, shipping and tax, and the final clamp leaves it as it is (the
\* stored finalPrice is the rounded total after tax).
C11_ClampUnreachable ==
    Accepted =>
        /\ Ge(afterDiscount(form).runningTotal, Zero)
        /\ Ge(afterPromotion(form).runningTotal, Zero)
        /\ Ge(afterCoupon(form).runningTotal, Zero)
        /\ Ge(afterSpendSave(form).runningTotal, Zero)
        /\ Ge(afterShipping(form).runningTotal, Zero)
        /\ Ge(afterTax(form).runningTotal, Zero)
        /\ clampTotal(afterTax(form)).runningTotal
              = afterTax(form).runningTotal
        /\ calculationResults.finalPrice
              = roundToTwoDecimals(afterTax(form).runningTotal)

---------------------------------------------------------------------------
(* C12 *)

\* C12: the stored totalSavings is round2 of the sum of the stored discount,
\* coupon, promotion and spend-and-save amounts, and a form that differs only
\* in shippingFee or taxRate (and passes validation too) has the same
\* totalSavings.
C12_SavingsExcludeSurcharges ==
    Accepted =>
        /\ calculationResults.totalSavings =
               roundToTwoDecimals(
                   Add(Add(Add(bd.discountAmount, bd.couponAmount),
                           bd.promotionAmount),
                       bd.spendSaveAmount))
        /\ \A s \in ShippingTexts, t \in TaxTexts :
               LET g == [form EXCEPT !.shippingFee = s, !.taxRate = t]
               IN  validateInputs(g) =>
                       resultsOf(g).totalSavings
                           = calculationResults.totalSavings

\* A calculation with savings, a shipping fee and a tax.
C12_Witness ==
    /\ Accepted
    /\ Gt(calculationResults.totalSavings, Zero)
    /\ Gt(bd.shippingFee, Zero)
    /\ Gt(bd.taxAmount, Zero)
    /\ Gt(bd.discountAmount, Zero) /\ Gt(bd.couponAmount, Zero)

---------------------------------------------------------------------------
(* C13 *)

\* The history holds the min(clock, 10) most recent successful calculations,
\* newest first: their numbers run down from clock without a gap.
C13_Shape ==
    /\ Len(history) = (IF clock < HistoryLimit THEN clock ELSE HistoryLimit)
    /\ \A i \in 1..Len(history) : history[i].id = clock + 1 - i

\* A press that passes validation puts its calculation in front of the
\* entries kept, in their order; every other step leaves the history alone.
C13_Step ==
    IF clock' = clock + 1
    THEN /\ history'[1].finalPrice = resultsOf(form).finalPrice
         /\ history'[1].totalSavings = resultsOf(form).totalSavings
         /\ history'[1].breakdown = resultsOf(form).breakdown
         /\ history'[1].originalPrice = form.originalPrice
         /\ \A i \in 2..Len(history') : history'[i] = history[i - 1]
    ELSE history' = history /\ clock' = clock

\* C13: after any sequence of edits, currency changes, resets and Calculate
\* presses the history holds at most 10 entries, newest first, exactly the
\* most recent min(n, 10) successful calculations (n = clock); a press that
\* fails validation, a reset, an edit and a currency change add and remove
\* nothing.
C13_HistoryLastTen == [][C13_Shape' /\ C13_Step]_vars

\* The eleventh successful calculation has pushed the first one out.
C13_Witness ==
    /\ clock = HistoryLimit + 1
    /\ Len(history) = HistoryLimit
    /\ history[HistoryLimit].id = 2
    /\ history[1].id = clock

---------------------------------------------------------------------------
(* C14 *)

\* C14 (as claimed): the entry a successful press adds records the currency
\* selected at the moment of the press.
C14_EntryHasSelectedCurrency ==
    [][clock' = clock + 1 => history'[1].currency = currency]_vars

---------------------------------------------------------------------------
(* C15 *)

\* C15 (as claimed): whenever the result panel is shown, the breakdownDisplay
\* it maps over is a list, not null.
C15_PanelHasBreakdownList ==
    resultPanelShown(calculationResults) =>
        ~breakdownDisplay(calculationResults, currency).isNull

====
